---- MODULE Spec2Model ----
(***************************************************************************)
(* Redis persistence of notification transmissions (edgex-go, v2           *)
(* infrastructure): the object blob at sn|trans:<id> and its five sorted-   *)
(* set index entries, written by MULTI/EXEC batches from concurrent        *)
(* callers.                                                                *)
(***************************************************************************)
EXTENDS Integers, Sequences, FiniteSets, TLC

\* ---------------------------------------------------------------- bounds
NumProcs == 2
NumIds == 2
NumStatus == 2
NumSubs == 2
NumNotifs == 2
MaxTime == 2
MaxCallerTime == 1
MaxCommits == 3
NumUuids == 3
NumGiven == 1
MaxStored == 2

Procs == 1..NumProcs

IdPool == <<"a", "b", "c", "d">>
StatusPool == <<"FAILED", "SENT", "ACKNOWLEDGED", "RESENDING">>
SubPool == <<"sub1", "sub2", "sub3", "sub4">>
NotifPool == <<"n1", "n2", "n3", "n4">>

Ids == {IdPool[i] : i \in 1..NumIds}
StatusValues == {StatusPool[i] : i \in 1..NumStatus}
SubNames == {SubPool[i] : i \in 1..NumSubs}
NotifIds == {NotifPool[i] : i \in 1..NumNotifs}

\* the values a caller may pass as models.Transmission
Inputs ==
  [Id : Ids, Status : StatusValues, SubscriptionName : SubNames,
   NotificationId : NotifIds, Created : 0..MaxCallerTime, Modified : 0..MaxCallerTime]

\* the values concurrent callers pass: one indexed field (Status) varies
ConcInputs ==
  {t \in Inputs : t.SubscriptionName = SubPool[1] /\ t.NotificationId = NotifPool[1]}

\* the values sequential callers pass: every indexed field of one id varies
SeqInputs == {t \in Inputs : t.Id = IdPool[1]}

NoTrans ==
  [Id |-> "", Status |-> "", SubscriptionName |-> "", NotificationId |-> "",
   Created |-> 0, Modified |-> 0]

\* ---------------------------------------------------------------- key space
DBKeySeparator == ":"

CreateKey(a, b) == a \o DBKeySeparator \o b

TransmissionCollection == "sn|trans"
TransmissionCollectionStatus == CreateKey(TransmissionCollection, "status")
TransmissionCollectionSubscriptionName ==
  CreateKey(CreateKey(TransmissionCollection, "subscription"), "name")
TransmissionCollectionNotificationId ==
  CreateKey(CreateKey(TransmissionCollection, "notification"), "id")
TransmissionCollectionCreated == CreateKey(TransmissionCollection, "created")

transmissionStoredKey(id) == CreateKey(TransmissionCollection, id)

StoredKeys == {transmissionStoredKey(i) : i \in Ids}

StatusKeys == {CreateKey(TransmissionCollectionStatus, s) : s \in StatusValues}
SubKeys == {CreateKey(TransmissionCollectionSubscriptionName, s) : s \in SubNames}
NotifKeys == {CreateKey(TransmissionCollectionNotificationId, n) : n \in NotifIds}
ZKeys ==
  {TransmissionCollection, TransmissionCollectionCreated}
    \cup StatusKeys \cup SubKeys \cup NotifKeys

\* ---------------------------------------------------------------- serialization
NoBlob == <<>>

Marshal(t) ==
  <<t.Id, t.Status, t.SubscriptionName, t.NotificationId, t.Created, t.Modified>>

Unmarshal(b) ==
  [Id |-> b[1], Status |-> b[2], SubscriptionName |-> b[3],
   NotificationId |-> b[4], Created |-> b[5], Modified |-> b[6]]

\* ---------------------------------------------------------------- store commands
Absent == -1

Cmd(op, key, score, member, val) ==
  [op |-> op, key |-> key, score |-> score, member |-> member, val |-> val]

MULTI == Cmd("MULTI", "", 0, "", NoBlob)
EXEC == Cmd("EXEC", "", 0, "", NoBlob)
SET(key, val) == Cmd("SET", key, 0, "", val)
DEL(key) == Cmd("DEL", key, 0, "", NoBlob)
ZADD(key, score, member) == Cmd("ZADD", key, score, member, NoBlob)
ZREM(key, member) == Cmd("ZREM", key, 0, member, NoBlob)

EmptyDB ==
  [str |-> [k \in StoredKeys |-> NoBlob],
   zset |-> [z \in ZKeys |-> [k \in StoredKeys |-> Absent]]]

Apply(d, c) ==
  CASE c.op = "SET" -> [d EXCEPT !.str[c.key] = c.val]
    [] c.op = "DEL" -> [d EXCEPT !.str[c.key] = NoBlob]
    [] c.op = "ZADD" -> [d EXCEPT !.zset[c.key][c.member] = c.score]
    [] c.op = "ZREM" -> [d EXCEPT !.zset[c.key][c.member] = Absent]
    [] OTHER -> d

RECURSIVE ApplyAll(_, _)
ApplyAll(d, cs) ==
  IF cs = <<>> THEN d ELSE ApplyAll(Apply(d, Head(cs)), Tail(cs))

\* the first unit the server applies indivisibly: a MULTI ... EXEC block, or
\* one command sent outside a block
NextUnit(w) ==
  IF Head(w).op = "MULTI" /\ \E i \in 1..Len(w) : w[i].op = "EXEC"
    THEN LET i == CHOOSE i \in 1..Len(w) :
                    w[i].op = "EXEC" /\ \A j \in 1..(i - 1) : w[j].op # "EXEC"
         IN SubSeq(w, 1, i)
    ELSE <<Head(w)>>

ApplyUnit(d, u) ==
  IF Head(u).op = "MULTI" THEN ApplyAll(d, SubSeq(u, 2, Len(u) - 1))
  ELSE Apply(d, Head(u))

Exists(d, key) == d.str[key] # NoBlob
ZMember(d, z, key) == d.zset[z][key] # Absent
ZCard(d, z) == Cardinality({k \in StoredKeys : ZMember(d, z, k)})

\* ---------------------------------------------------------------- state
\* db: the store; now: the clock MakeTimestamp reads; per caller p: pc (where its
\* call stands), given (the Created the caller passed), trans (the local copy the
\* call stamps), old (the record it read), ts (its MakeTimestamp), wire (commands
\* sent and not yet applied), wrote (a command of the call has been applied),
\* readAt (batches committed when the call read the store).  commits counts
\* committed batches and last records the call that returned most recently
\* (moved: the indexed fields it changed; solo: no batch was committed between
\* its read and its EXEC; over: see Over).
VARIABLES db, now, pc, given, trans, old, ts, wire, wrote, readAt, commits, last

\* res: the query that returned most recently and what it returned.
VARIABLE res

\* The Client: active counts the connections taken from c.Pool and not closed;
\* call[p] is the operation caller p is in (op), the id it was passed (given),
\* the id of the entity as it stands (id), the connections the operation has
\* taken (got) and closed (put) and the store round trips it has made (cmds);
\* ents holds the ids stored per entity type, assigned the ids uuid.New has
\* returned, cres the operation that returned most recently.
VARIABLES active, call, ents, assigned, cres

storeVars == <<db, now, pc, given, trans, old, ts, wire, wrote, readAt, commits, last>>
clientVars == <<active, call, ents, assigned, cres>>

vars ==
  <<db, now, pc, given, trans, old, ts, wire, wrote, readAt, commits, last,
    res, active, call, ents, assigned, cres>>

ErrorKinds == {"DuplicateName", "NotFound", "DatabaseError", "ContractInvalid"}

NoCall ==
  [op |-> "none", ret |-> "none", id |-> "", given |-> 0, ts |-> 0,
   moved |-> {}, wrote |-> FALSE, solo |-> TRUE, over |-> "none"]

NoQuery ==
  [op |-> "none", err |-> "", start |-> 0, end |-> 0, offset |-> 0, limit |-> 0,
   out |-> <<>>]

Kinds == {"event", "profile", "service", "device"}

NoClientCall ==
  [op |-> "none", given |-> "", id |-> "", got |-> 0, put |-> 0, cmds |-> 0]

NoReturn == [op |-> "none", given |-> "", id |-> "", ret |-> "none", cmds |-> 0]

\* no caller is in a call, nothing has returned; every client store is empty
Quiet ==
  /\ now = 1
  /\ pc = [p \in Procs |-> "idle"]
  /\ given = [p \in Procs |-> 0]
  /\ trans = [p \in Procs |-> NoTrans]
  /\ old = [p \in Procs |-> NoTrans]
  /\ ts = [p \in Procs |-> 0]
  /\ wire = [p \in Procs |-> <<>>]
  /\ wrote = [p \in Procs |-> FALSE]
  /\ readAt = [p \in Procs |-> 0]
  /\ commits = 0
  /\ last = NoCall
  /\ res = NoQuery
  /\ active = 0
  /\ call = [p \in Procs |-> NoClientCall]
  /\ ents = [k \in Kinds |-> {}]
  /\ assigned = {}
  /\ cres = NoReturn

Init == db = EmptyDB /\ Quiet

\* ---------------------------------------------------------------- helpers of the handlers
\* objectIdExists / getObjectById: one read round trip, which may fail
Faults == {"none", "read", "marshal"}

objectIdExists(d, key, fault) ==
  IF fault = "read" THEN [err |-> "DatabaseError", exists |-> FALSE]
  ELSE [err |-> "", exists |-> Exists(d, key)]

getObjectById(d, key, fault) ==
  IF fault = "read" THEN [err |-> "DatabaseError", obj |-> NoTrans]
  ELSE IF ~Exists(d, key) THEN [err |-> "NotFound", obj |-> NoTrans]
  ELSE [err |-> "", obj |-> Unmarshal(d.str[key])]

transmissionById(d, id, fault) == getObjectById(d, transmissionStoredKey(id), fault)

\* mutation: the created-time index is scored by Modified
sendAddTransmissionCmd_CreatedByModified(storedKey, t) ==
  << SET(storedKey, Marshal(t)),
     ZADD(TransmissionCollection, t.Modified, storedKey),
     ZADD(TransmissionCollectionCreated, t.Modified, storedKey),
     ZADD(CreateKey(TransmissionCollectionStatus, t.Status), t.Modified, storedKey),
     ZADD(CreateKey(TransmissionCollectionSubscriptionName, t.SubscriptionName),
          t.Modified, storedKey),
     ZADD(CreateKey(TransmissionCollectionNotificationId, t.NotificationId),
          t.Modified, storedKey) >>

sendAddTransmissionCmd(storedKey, t) ==
  << SET(storedKey, Marshal(t)),
     ZADD(TransmissionCollection, t.Modified, storedKey),
     ZADD(TransmissionCollectionCreated, t.Created, storedKey),
     ZADD(CreateKey(TransmissionCollectionStatus, t.Status), t.Modified, storedKey),
     ZADD(CreateKey(TransmissionCollectionSubscriptionName, t.SubscriptionName),
          t.Modified, storedKey),
     ZADD(CreateKey(TransmissionCollectionNotificationId, t.NotificationId),
          t.Modified, storedKey) >>

\* mutation: the status index of the old value is emptied, not only left by the key
sendDeleteTransmissionCmd_ClearStatusIndex(storedKey, t) ==
  << DEL(storedKey),
     ZREM(TransmissionCollection, storedKey),
     ZREM(TransmissionCollectionCreated, storedKey) >>
  \o [i \in 1..NumIds |->
        ZREM(CreateKey(TransmissionCollectionStatus, t.Status),
             transmissionStoredKey(IdPool[i]))]
  \o << ZREM(CreateKey(TransmissionCollectionSubscriptionName, t.SubscriptionName), storedKey),
        ZREM(CreateKey(TransmissionCollectionNotificationId, t.NotificationId), storedKey) >>

\* mutation: the removal from the primary index is left out
sendDeleteTransmissionCmd_NoPrimaryZrem(storedKey, t) ==
  << DEL(storedKey),
     ZREM(TransmissionCollectionCreated, storedKey),
     ZREM(CreateKey(TransmissionCollectionStatus, t.Status), storedKey),
     ZREM(CreateKey(TransmissionCollectionSubscriptionName, t.SubscriptionName), storedKey),
     ZREM(CreateKey(TransmissionCollectionNotificationId, t.NotificationId), storedKey) >>

sendDeleteTransmissionCmd(storedKey, t) ==
  << DEL(storedKey),
     ZREM(TransmissionCollection, storedKey),
     ZREM(TransmissionCollectionCreated, storedKey),
     ZREM(CreateKey(TransmissionCollectionStatus, t.Status), storedKey),
     ZREM(CreateKey(TransmissionCollectionSubscriptionName, t.SubscriptionName), storedKey),
     ZREM(CreateKey(TransmissionCollectionNotificationId, t.NotificationId), storedKey) >>

\* mutation: the caller's Modified is kept
StampAdd_TrustModified(t, stamp) ==
  [t EXCEPT !.Created = IF t.Created = 0 THEN stamp ELSE t.Created]

\* addTransmission: ts := MakeTimestamp(); Created defaults to ts; Modified := ts
StampAdd(t, stamp) ==
  [t EXCEPT !.Created = IF t.Created = 0 THEN stamp ELSE t.Created,
            !.Modified = stamp]

\* mutation: a zero Created is replaced by the timestamp, as add does
StampUpdate_DefaultCreated(t, stamp) ==
  [t EXCEPT !.Created = IF t.Created = 0 THEN stamp ELSE t.Created,
            !.Modified = stamp]

\* updateTransmission: Modified := MakeTimestamp()
StampUpdate(t, stamp) == [t EXCEPT !.Modified = stamp]

\* mutation: the blob is written before the batch is opened
AddBatch_SetOutsideMulti(t) ==
  <<SET(transmissionStoredKey(t.Id), Marshal(t)), MULTI>>
    \o Tail(sendAddTransmissionCmd(transmissionStoredKey(t.Id), t))

\* what addTransmission has sent when it calls Do(EXEC)
AddBatch(t) ==
  <<MULTI>> \o sendAddTransmissionCmd(transmissionStoredKey(t.Id), t)

\* mutation: the old index entries are removed under the new field values
UpdateBatch_RemoveByNew(oldT, t) ==
  <<MULTI>> \o sendDeleteTransmissionCmd(transmissionStoredKey(t.Id), t)
            \o sendAddTransmissionCmd(transmissionStoredKey(t.Id), t)

\* mutation: the removals are sent before the batch is opened
UpdateBatch_DeleteOutsideMulti(oldT, t) ==
  sendDeleteTransmissionCmd(transmissionStoredKey(t.Id), oldT)
    \o <<MULTI>> \o sendAddTransmissionCmd(transmissionStoredKey(t.Id), t)

\* what updateTransmission has sent when it calls Do(EXEC)
UpdateBatch(oldT, t) ==
  <<MULTI>> \o sendDeleteTransmissionCmd(transmissionStoredKey(t.Id), oldT)
            \o sendAddTransmissionCmd(transmissionStoredKey(t.Id), t)

\* what a delete has sent when it calls Do(EXEC)
DeleteBatch(id, oldT) ==
  <<MULTI>> \o sendDeleteTransmissionCmd(transmissionStoredKey(id), oldT)

Busy == {q \in Procs : pc[q] # "idle"}

\* every call that starts can still commit below the cap on committed batches
CanStart == commits + Cardinality(Busy) < MaxCommits

\* the caller's frame is gone once its call has returned
Clear(p) ==
  /\ pc' = [pc EXCEPT ![p] = "idle"]
  /\ given' = [given EXCEPT ![p] = 0]
  /\ trans' = [trans EXCEPT ![p] = NoTrans]
  /\ old' = [old EXCEPT ![p] = NoTrans]
  /\ ts' = [ts EXCEPT ![p] = 0]
  /\ wire' = [wire EXCEPT ![p] = <<>>]
  /\ wrote' = [wrote EXCEPT ![p] = FALSE]
  /\ readAt' = [readAt EXCEPT ![p] = 0]

\* the operation of the batch committed last, when it hit the same id after
\* the returning call had read the store
Over(id, read) ==
  IF last.ret = "ok" /\ last.id = id /\ read < commits THEN last.op ELSE "none"

\* the indexed fields an update gives a value other than the one it read
Moved(label, oldT, t) ==
  IF label # "upd_exec" THEN {}
  ELSE {f \in {"Status", "SubscriptionName", "NotificationId"} : oldT[f] # t[f]}

\* a call of p that returns the error kind before Do(EXEC); what it has sent
\* is an open batch at most, which is never committed
ReturnEarly(p, name, id, kind) ==
  /\ Clear(p)
  /\ last' = [NoCall EXCEPT !.op = name, !.ret = kind, !.id = id]

\* a call of p that goes on to Do(EXEC) with the commands w sent
GoExec(p, label, created, local, oldT, stamp, w) ==
  /\ pc' = [pc EXCEPT ![p] = label]
  /\ given' = [given EXCEPT ![p] = created]
  /\ trans' = [trans EXCEPT ![p] = local]
  /\ old' = [old EXCEPT ![p] = oldT]
  /\ ts' = [ts EXCEPT ![p] = stamp]
  /\ wire' = [wire EXCEPT ![p] = w \o <<EXEC>>]
  /\ wrote' = [wrote EXCEPT ![p] = FALSE]
  /\ readAt' = [readAt EXCEPT ![p] = commits]
  /\ UNCHANGED last

OpOf(label) ==
  CASE label = "add_exec" -> "add"
    [] label = "upd_exec" -> "update"
    [] label = "del_exec" -> "delete"
    [] OTHER -> "none"

\* ---------------------------------------------------------------- actions
\* mutation: the result of the existence check is ignored
AddTransmission_NoDuplicateCheck(p, t, fault) ==
  LET r == objectIdExists(db, transmissionStoredKey(t.Id), fault) IN
  /\ pc[p] = "idle"
  /\ CanStart
  /\ UNCHANGED <<db, commits, res, clientVars>>
  /\ IF r.err # "" THEN
       ReturnEarly(p, "add", t.Id, r.err) /\ UNCHANGED now
     ELSE \E stamp \in now..MaxTime :
       /\ now' = stamp
       /\ IF fault = "marshal"
            THEN ReturnEarly(p, "add", t.Id, "ContractInvalid")
            ELSE GoExec(p, "add_exec", t.Created, StampAdd(t, stamp), NoTrans, stamp,
                        AddBatch(StampAdd(t, stamp)))

\* addTransmission up to Do(EXEC)
AddTransmission(p, t, fault) ==
  LET r == objectIdExists(db, transmissionStoredKey(t.Id), fault) IN
  /\ pc[p] = "idle"
  /\ CanStart
  /\ UNCHANGED <<db, commits, res, clientVars>>
  /\ IF r.err # "" THEN
       ReturnEarly(p, "add", t.Id, r.err) /\ UNCHANGED now
     ELSE IF r.exists THEN
       ReturnEarly(p, "add", t.Id, "DuplicateName") /\ UNCHANGED now
     ELSE \E stamp \in now..MaxTime :
       /\ now' = stamp
       /\ IF fault = "marshal"
            THEN ReturnEarly(p, "add", t.Id, "ContractInvalid")
            ELSE GoExec(p, "add_exec", t.Created, StampAdd(t, stamp), NoTrans, stamp,
                        AddBatch(StampAdd(t, stamp)))

\* mutation: a record that is not found is written all the same
UpdateTransmission_Upsert(p, t, fault) ==
  LET r == transmissionById(db, t.Id, fault) IN
  /\ pc[p] = "idle"
  /\ CanStart
  /\ UNCHANGED <<db, commits, res, clientVars>>
  /\ IF r.err = "DatabaseError" THEN
       ReturnEarly(p, "update", t.Id, r.err) /\ UNCHANGED now
     ELSE \E stamp \in now..MaxTime :
       /\ now' = stamp
       /\ IF fault = "marshal"
            THEN ReturnEarly(p, "update", t.Id, "ContractInvalid")
            ELSE GoExec(p, "upd_exec", t.Created, StampUpdate(t, stamp), r.obj, stamp,
                        AddBatch(StampUpdate(t, stamp)))

\* updateTransmission up to Do(EXEC)
UpdateTransmission(p, t, fault) ==
  LET r == transmissionById(db, t.Id, fault) IN
  /\ pc[p] = "idle"
  /\ CanStart
  /\ UNCHANGED <<db, commits, res, clientVars>>
  /\ IF r.err # "" THEN
       ReturnEarly(p, "update", t.Id, r.err) /\ UNCHANGED now
     ELSE \E stamp \in now..MaxTime :
       /\ now' = stamp
       /\ IF fault = "marshal"
            THEN ReturnEarly(p, "update", t.Id, "ContractInvalid")
            ELSE GoExec(p, "upd_exec", t.Created, StampUpdate(t, stamp), r.obj, stamp,
                        UpdateBatch(r.obj, StampUpdate(t, stamp)))

\* delete by id up to Do(EXEC): the record is read, then its removal is queued
DeleteTransmission(p, id, fault) ==
  LET r == transmissionById(db, id, fault) IN
  /\ fault # "marshal"
  /\ pc[p] = "idle"
  /\ CanStart
  /\ UNCHANGED <<db, commits, now, res, clientVars>>
  /\ IF r.err # "" THEN ReturnEarly(p, "delete", id, r.err)
     ELSE GoExec(p, "del_exec", 0, [NoTrans EXCEPT !.Id = id], r.obj, 0,
                 DeleteBatch(id, r.obj))

\* Do(EXEC): the commands sent are flushed and the server applies the next unit.
\* A failed commit applies nothing (the batch contract of the store) and is
\* returned as DatabaseError; so is an EXEC the server meets outside a batch.
DoExec(p, fail) ==
  LET u == NextUnit(wire[p])
      rest == SubSeq(wire[p], Len(u) + 1, Len(wire[p]))
      done(kind, w) ==
        [op |-> OpOf(pc[p]), ret |-> kind, id |-> trans[p].Id, given |-> given[p],
         ts |-> ts[p], moved |-> Moved(pc[p], old[p], trans[p]), wrote |-> w,
         solo |-> (readAt[p] = commits), over |-> Over(trans[p].Id, readAt[p])] IN
  /\ wire[p] # <<>>
  /\ UNCHANGED <<now, res, clientVars>>
  /\ IF fail \/ Head(u).op = "EXEC" THEN
       /\ Clear(p)
       /\ last' = done("DatabaseError", wrote[p])
       /\ UNCHANGED <<db, commits>>
     ELSE
       /\ db' = ApplyUnit(db, u)
       /\ commits' = commits + 1
       /\ IF rest = <<>> THEN
            /\ Clear(p)
            /\ last' = done("ok", TRUE)
          ELSE
            /\ wire' = [wire EXCEPT ![p] = rest]
            /\ wrote' = [wrote EXCEPT ![p] = TRUE]
            /\ UNCHANGED <<pc, given, trans, old, ts, readAt, last>>

\* mutation: the commit is refused when the blob exists by then
AddExec_CheckAtCommit(p, fail) ==
  /\ pc[p] = "add_exec"
  /\ IF Exists(db, transmissionStoredKey(trans[p].Id)) THEN
       /\ Clear(p)
       /\ last' = [NoCall EXCEPT !.op = "add", !.ret = "DuplicateName",
                                 !.id = trans[p].Id]
       /\ UNCHANGED <<db, commits, now, res, clientVars>>
     ELSE DoExec(p, fail)

AddExec(p, fail) == pc[p] = "add_exec" /\ DoExec(p, fail)

\* mutation: the commit is refused when the blob is gone by then
UpdateExec_CheckAtCommit(p, fail) ==
  /\ pc[p] = "upd_exec"
  /\ IF ~Exists(db, transmissionStoredKey(trans[p].Id)) THEN
       /\ Clear(p)
       /\ last' = [NoCall EXCEPT !.op = "update", !.ret = "NotFound",
                                 !.id = trans[p].Id]
       /\ UNCHANGED <<db, commits, now, res, clientVars>>
     ELSE DoExec(p, fail)

UpdateExec(p, fail) == pc[p] = "upd_exec" /\ DoExec(p, fail)

DeleteExec(p, fail) == pc[p] = "del_exec" /\ DoExec(p, fail)

Step(p, In) ==
  \/ \E t \in In, f \in Faults : AddTransmission(p, t, f)
  \/ \E t \in In, f \in Faults : UpdateTransmission(p, t, f)
  \/ \E id \in {t.Id : t \in In}, f \in Faults : DeleteTransmission(p, id, f)
  \/ \E fail \in BOOLEAN : AddExec(p, fail)
  \/ \E fail \in BOOLEAN : UpdateExec(p, fail)
  \/ \E fail \in BOOLEAN : DeleteExec(p, fail)

\* any number of callers, interleaved at every round trip
Next == \E p \in Procs : Step(p, ConcInputs)

Spec == Init /\ [][Next]_vars

\* every operation runs to completion before the next one starts
NextSeq == \E p \in Procs : Busy \subseteq {p} /\ Step(p, SeqInputs)

SpecSeq == Init /\ [][NextSeq]_vars

\* ---------------------------------------------------------------- queries
\* the place of a stored key in the byte order of the keys
MemberRank(k) ==
  CHOOSE i \in 1..Len(IdPool) : transmissionStoredKey(IdPool[i]) = k

\* the order of a sorted set: by score, members of one score in byte order
ZBefore(d, z, j, k) ==
  \/ d.zset[z][j] < d.zset[z][k]
  \/ d.zset[z][j] = d.zset[z][k] /\ MemberRank(j) < MemberRank(k)

RECURSIVE ZAscending(_, _, _)
ZAscending(d, z, S) ==
  IF S = {} THEN <<>>
  ELSE LET m == CHOOSE m \in S : \A k \in S \ {m} : ZBefore(d, z, m, k)
       IN <<m>> \o ZAscending(d, z, S \ {m})

Reverse(s) == [i \in 1..Len(s) |-> s[Len(s) + 1 - i]]

\* limit members of s after the first offset ones
Window(s, offset, limit) ==
  IF offset >= Len(s) \/ limit = 0 THEN <<>>
  ELSE SubSeq(s, offset + 1, IF offset + limit < Len(s) THEN offset + limit ELSE Len(s))

ZRANGEBYSCORE(d, z, min, max, offset, count) ==
  Window(ZAscending(d, z, {k \in StoredKeys :
                             ZMember(d, z, k) /\ min <= d.zset[z][k] /\ d.zset[z][k] <= max}),
         offset, count)

ZREVRANGE(d, z, offset, count) ==
  Window(Reverse(ZAscending(d, z, {k \in StoredKeys : ZMember(d, z, k)})), offset, count)

\* the blobs at the keys, in the order of the keys; NoBlob where there is none
MGET(d, keys) == [i \in 1..Len(keys) |-> d.str[keys[i]]]

QueryFaults == {"none", "read"}

getObjectsByScoreRange(d, key, start, end, offset, limit, fault) ==
  IF fault = "read" THEN [err |-> "DatabaseError", objects |-> <<>>]
  ELSE [err |-> "", objects |-> MGET(d, ZRANGEBYSCORE(d, key, start, end, offset, limit))]

getObjectsByRevRange(d, key, offset, limit, fault) ==
  IF fault = "read" THEN [err |-> "DatabaseError", objects |-> <<>>]
  ELSE [err |-> "", objects |-> MGET(d, ZREVRANGE(d, key, offset, limit))]

\* the loop both queries run over the objects read: json.Unmarshal of each
DecodeAll(r) ==
  IF r.err # "" THEN [err |-> r.err, transmissions |-> <<>>]
  ELSE IF \E i \in 1..Len(r.objects) : r.objects[i] = NoBlob
    THEN [err |-> "DatabaseError", transmissions |-> <<>>]
  ELSE [err |-> "",
        transmissions |-> [i \in 1..Len(r.objects) |-> Unmarshal(r.objects[i])]]

\* mutation: the range is read from the primary index
transmissionsByTimeRange_PrimaryIndex(d, startTime, endTime, offset, limit, fault) ==
  DecodeAll(getObjectsByScoreRange(d, TransmissionCollection,
                                   startTime, endTime, offset, limit, fault))

transmissionsByTimeRange(d, startTime, endTime, offset, limit, fault) ==
  DecodeAll(getObjectsByScoreRange(d, TransmissionCollectionCreated,
                                   startTime, endTime, offset, limit, fault))

\* mutation: the window is read from the created-time index
allTransmissions_CreatedIndex(d, offset, limit, fault) ==
  DecodeAll(getObjectsByRevRange(d, TransmissionCollectionCreated, offset, limit, fault))

allTransmissions(d, offset, limit, fault) ==
  DecodeAll(getObjectsByRevRange(d, TransmissionCollection, offset, limit, fault))

\* a caller runs transmissionsByTimeRange against the store as it stands
CallTransmissionsByTimeRange(start, end, offset, limit, fault) ==
  LET r == transmissionsByTimeRange(db, start, end, offset, limit, fault) IN
  /\ res' = [op |-> "transmissionsByTimeRange", err |-> r.err, start |-> start,
             end |-> end, offset |-> offset, limit |-> limit, out |-> r.transmissions]
  /\ UNCHANGED <<storeVars, clientVars>>

\* a caller runs allTransmissions against the store as it stands
CallAllTransmissions(offset, limit, fault) ==
  LET r == allTransmissions(db, offset, limit, fault) IN
  /\ res' = [op |-> "allTransmissions", err |-> r.err, start |-> 0, end |-> 0,
             offset |-> offset, limit |-> limit, out |-> r.transmissions]
  /\ UNCHANGED <<storeVars, clientVars>>

\* the store after the transmissions of the ids in L have been added with the
\* Created and Modified of f
RECURSIVE StoreOf(_, _)
StoreOf(L, f) ==
  IF L = {} THEN EmptyDB
  ELSE LET id == CHOOSE id \in L : TRUE
           t == [Id |-> id, Status |-> StatusPool[1], SubscriptionName |-> SubPool[1],
                 NotificationId |-> NotifPool[1], Created |-> f[id].Created,
                 Modified |-> f[id].Modified]
       IN ApplyUnit(StoreOf(L \ {id}, f), AddBatch(t) \o <<EXEC>>)

QueryStores ==
  UNION {{StoreOf(L, f) : f \in [L -> [Created : 0..MaxTime, Modified : 1..MaxTime]]} :
           L \in SUBSET Ids}

InitQuery == db \in QueryStores /\ Quiet

NextQuery ==
  \/ \E start \in 0..MaxTime, end \in 0..MaxTime, offset \in 0..NumIds,
        limit \in 0..NumIds, fault \in QueryFaults :
       CallTransmissionsByTimeRange(start, end, offset, limit, fault)
  \/ \E offset \in 0..NumIds, limit \in 0..NumIds, fault \in QueryFaults :
       CallAllTransmissions(offset, limit, fault)

\* queries against a store that no writer changes meanwhile
SpecQuery == InitQuery /\ [][NextQuery]_vars

\* ---------------------------------------------------------------- client
UuidPool == <<"u1", "u2", "u3", "u4", "u5">>
Uuids == {UuidPool[i] : i \in 1..NumUuids}

Malformed == "not-a-uuid"

\* the ids callers pass: none, a malformed token, well-formed ones
GivenIds == {"", Malformed} \cup {UuidPool[i] : i \in 1..NumGiven}

\* uuid.Parse: the error it returns, none for a well-formed token
uuidParse(s) ==
  IF \E i \in 1..Len(UuidPool) : UuidPool[i] = s THEN "" ELSE "InvalidId"

\* uuid.New: the tokens it may return, none of them returned or stored before
uuidNew == Uuids \ (assigned \cup UNION {ents[k] : k \in Kinds})

AddOps == {"AddEvent", "AddDeviceProfile", "AddDeviceService", "AddDevice"}

KindOf(op) ==
  CASE op = "AddEvent" -> "event"
    [] op = "AddDeviceProfile" -> "profile"
    [] op = "AddDevice" -> "device"
    [] OTHER -> "service"

\* an add may start while fewer than MaxStored entities are stored or on their way
CanAdd ==
  Cardinality({q \in Procs : call[q].op \in AddOps})
    + Cardinality({x \in Kinds \X (Uuids \cup GivenIds) : x[2] \in ents[x[1]]}) < MaxStored

\* conn := c.Pool.Get() of operation op, passed the id given; the entity's id is id
Enter(op, givenId, id) ==
  [op |-> op, given |-> givenId, id |-> id, got |-> 1, put |-> 0, cmds |-> 0]

\* the operation goes on to its helper with the connection held
Hold(p, c) ==
  /\ call' = [call EXCEPT ![p] = c]
  /\ active' = active + 1
  /\ UNCHANGED <<cres, storeVars, res>>

\* the operation returns kind and the deferred conn.Close() runs; held is the
\* number of connections out of the pool at that moment
Return(p, c, kind, held) ==
  /\ call' = [call EXCEPT ![p] = [NoClientCall EXCEPT !.got = c.got, !.put = c.put + 1]]
  /\ active' = held - 1
  /\ cres' = [op |-> c.op, given |-> c.given, id |-> c.id, ret |-> kind, cmds |-> c.cmds]
  /\ UNCHANGED <<storeVars, res>>

\* mutation: the return on a malformed id does not close the connection
AddEvent_LeakOnInvalidId(p, id) ==
  LET c == Enter("AddEvent", id, id) IN
  /\ call[p].op = "none"
  /\ CanAdd
  /\ UNCHANGED <<ents, assigned>>
  /\ IF id # "" /\ uuidParse(id) # "" THEN
       /\ call' = [call EXCEPT ![p] = [NoClientCall EXCEPT !.got = 1]]
       /\ active' = active + 1
       /\ cres' = [op |-> c.op, given |-> id, id |-> id, ret |-> "InvalidId", cmds |-> 0]
       /\ UNCHANGED <<storeVars, res>>
     ELSE Hold(p, c)

\* Client.AddEvent up to the call of addEvent
AddEvent(p, id) ==
  LET c == Enter("AddEvent", id, id) IN
  /\ call[p].op = "none"
  /\ CanAdd
  /\ UNCHANGED <<ents, assigned>>
  /\ IF id # "" /\ uuidParse(id) # "" THEN Return(p, c, "InvalidId", active + 1)
     ELSE Hold(p, c)

\* Client.AddDeviceProfile up to the call of addDeviceProfile
AddDeviceProfile(p, id) ==
  /\ call[p].op = "none"
  /\ CanAdd
  /\ UNCHANGED ents
  /\ IF id # "" THEN
       /\ UNCHANGED assigned
       /\ IF uuidParse(id) # ""
            THEN Return(p, Enter("AddDeviceProfile", id, id), "InvalidId", active + 1)
            ELSE Hold(p, Enter("AddDeviceProfile", id, id))
     ELSE \E u \in uuidNew :
       /\ assigned' = assigned \cup {u}
       /\ Hold(p, Enter("AddDeviceProfile", id, u))

\* Client.AddDeviceService up to the call of addDeviceService
AddDeviceService(p, id) ==
  /\ call[p].op = "none"
  /\ CanAdd
  /\ UNCHANGED ents
  /\ IF id = "" THEN
       \E u \in uuidNew :
         /\ assigned' = assigned \cup {u}
         /\ Hold(p, Enter("AddDeviceService", id, u))
     ELSE UNCHANGED assigned /\ Hold(p, Enter("AddDeviceService", id, id))

\* mutation: a new id is assigned whatever the caller passed
AddDevice_AlwaysNewId(p, id) ==
  /\ call[p].op = "none"
  /\ CanAdd
  /\ UNCHANGED ents
  /\ \E u \in uuidNew :
       /\ assigned' = assigned \cup {u}
       /\ Hold(p, Enter("AddDevice", id, u))

\* Client.AddDevice up to the call of addDevice
AddDevice(p, id) ==
  /\ call[p].op = "none"
  /\ CanAdd
  /\ UNCHANGED ents
  /\ IF id = "" THEN
       \E u \in uuidNew :
         /\ assigned' = assigned \cup {u}
         /\ Hold(p, Enter("AddDevice", id, u))
     ELSE UNCHANGED assigned /\ Hold(p, Enter("AddDevice", id, id))

\* the create of an entity of op's type: an id is generated when there is none,
\* the key is probed, the entity is written in one batch; then the return
addObject(p, op, fault) ==
  LET c == call[p]
      kind == KindOf(op) IN
  /\ c.op = op
  /\ \E id \in (IF c.id = "" THEN uuidNew ELSE {c.id}) :
       /\ assigned' = IF c.id = "" THEN assigned \cup {id} ELSE assigned
       /\ IF fault = "read" THEN
            /\ Return(p, [c EXCEPT !.cmds = 1], "DatabaseError", active)
            /\ UNCHANGED ents
          ELSE IF id \in ents[kind] THEN
            /\ Return(p, [c EXCEPT !.cmds = 1], "DuplicateName", active)
            /\ UNCHANGED ents
          ELSE
            /\ ents' = [ents EXCEPT ![kind] = @ \cup {id}]
            /\ Return(p, [c EXCEPT !.id = id, !.cmds = 2], "ok", active)

addEvent(p, fault) == addObject(p, "AddEvent", fault)
addDeviceProfile(p, fault) == addObject(p, "AddDeviceProfile", fault)
addDeviceService(p, fault) == addObject(p, "AddDeviceService", fault)
addDevice(p, fault) == addObject(p, "AddDevice", fault)

\* Client.DeleteDeviceServiceById up to the call of deleteDeviceServiceById
DeleteDeviceServiceById(p, id) ==
  /\ call[p].op = "none"
  /\ UNCHANGED <<ents, assigned>>
  /\ Hold(p, Enter("DeleteDeviceServiceById", id, id))

deleteDeviceServiceById(p, fault) ==
  LET c == call[p] IN
  /\ c.op = "DeleteDeviceServiceById"
  /\ UNCHANGED assigned
  /\ IF fault = "read" THEN
       Return(p, [c EXCEPT !.cmds = 1], "DatabaseError", active) /\ UNCHANGED ents
     ELSE IF c.id \notin ents["service"] THEN
       Return(p, [c EXCEPT !.cmds = 1], "NotFound", active) /\ UNCHANGED ents
     ELSE
       /\ ents' = [ents EXCEPT !["service"] = @ \ {c.id}]
       /\ Return(p, [c EXCEPT !.cmds = 2], "ok", active)

\* Client.EventsByTimeRange up to the call of eventsByTimeRange
EventsByTimeRange(p) ==
  /\ call[p].op = "none"
  /\ UNCHANGED <<ents, assigned>>
  /\ Hold(p, Enter("EventsByTimeRange", "", ""))

eventsByTimeRange(p, fault) ==
  LET c == call[p] IN
  /\ c.op = "EventsByTimeRange"
  /\ UNCHANGED <<ents, assigned>>
  /\ Return(p, [c EXCEPT !.cmds = 1], IF fault = "read" THEN "DatabaseError" ELSE "ok",
            active)

ClientStep(p) ==
  \/ \E id \in GivenIds : AddEvent(p, id)
  \/ \E id \in GivenIds : AddDeviceProfile(p, id)
  \/ \E id \in GivenIds : AddDeviceService(p, id)
  \/ \E id \in GivenIds : AddDevice(p, id)
  \/ \E fault \in QueryFaults : addEvent(p, fault)
  \/ \E fault \in QueryFaults : addDeviceProfile(p, fault)
  \/ \E fault \in QueryFaults : addDeviceService(p, fault)
  \/ \E fault \in QueryFaults : addDevice(p, fault)
  \/ \E id \in GivenIds \cup ents["service"] : DeleteDeviceServiceById(p, id)
  \/ \E fault \in QueryFaults : deleteDeviceServiceById(p, fault)
  \/ EventsByTimeRange(p)
  \/ \E fault \in QueryFaults : eventsByTimeRange(p, fault)

NextClient == \E p \in Procs : ClientStep(p)

\* operations of the Client from any number of callers
SpecClient == Init /\ [][NextClient]_vars

\* ---------------------------------------------------------------- views of the store
StoredTrans(d, id) == Unmarshal(d.str[transmissionStoredKey(id)])

StatusKey(v) == CreateKey(TransmissionCollectionStatus, v)
SubKey(v) == CreateKey(TransmissionCollectionSubscriptionName, v)
NotifKey(v) == CreateKey(TransmissionCollectionNotificationId, v)

\* the key of id is in the secondary indexes of the stored field values only
SecondaryMatches(d, id) ==
  LET k == transmissionStoredKey(id)
      t == StoredTrans(d, id) IN
  /\ \A v \in StatusValues : ZMember(d, StatusKey(v), k) <=> v = t.Status
  /\ \A v \in SubNames : ZMember(d, SubKey(v), k) <=> v = t.SubscriptionName
  /\ \A v \in NotifIds : ZMember(d, NotifKey(v), k) <=> v = t.NotificationId

AllFields == {"Status", "SubscriptionName", "NotificationId"}

\* ---------------------------------------------------------------- claims
\* C1: between committed batches, under any interleaving of add, update and
\* delete calls, a stored key is in the primary index sn|trans if and only if
\* a blob exists at that key.
C1_NoOrphan ==
  \A id \in Ids :
    ZMember(db, TransmissionCollection, transmissionStoredKey(id))
      <=> Exists(db, transmissionStoredKey(id))

\* an update has committed over a delete that landed after the update's read
C1_Witness ==
  /\ last.op = "update" /\ last.ret = "ok" /\ last.over = "delete"
  /\ Exists(db, transmissionStoredKey(last.id))
  /\ ZMember(db, TransmissionCollection, transmissionStoredKey(last.id))

\* C2: when every operation runs to completion before the next starts, the key
\* of every live transmission is in exactly the Status, SubscriptionName and
\* NotificationId index of the field value stored in its blob.
C2_SecondaryCurrent ==
  \A id \in Ids : Exists(db, transmissionStoredKey(id)) => SecondaryMatches(db, id)

\* an update that changed all three indexed fields has committed
C2_Witness ==
  /\ last.op = "update" /\ last.ret = "ok" /\ last.moved = AllFields
  /\ Exists(db, transmissionStoredKey(last.id))

\* C3: when an update commits after another update of the same id that
\* committed after the first one's read, the indexes hold the key under the
\* values of the update committed last only, and the blob is that update's.
C3_LastUpdateWins ==
  (last.op = "update" /\ last.ret = "ok" /\ last.over = "update")
    => /\ Exists(db, transmissionStoredKey(last.id))
       /\ StoredTrans(db, last.id).Modified = last.ts
       /\ SecondaryMatches(db, last.id)

\* the state of the store a committed update of p leaves for its id
PostUpdate(d, p) ==
  LET k == transmissionStoredKey(trans[p].Id)
      t == trans[p]
      o == old[p] IN
  /\ d.str[k] = Marshal(t)
  /\ d.zset[TransmissionCollection][k] = t.Modified
  /\ d.zset[TransmissionCollectionCreated][k] = t.Created
  /\ d.zset[StatusKey(t.Status)][k] = t.Modified
  /\ d.zset[SubKey(t.SubscriptionName)][k] = t.Modified
  /\ d.zset[NotifKey(t.NotificationId)][k] = t.Modified
  /\ o.Status # t.Status => ~ZMember(d, StatusKey(o.Status), k)
  /\ o.SubscriptionName # t.SubscriptionName => ~ZMember(d, SubKey(o.SubscriptionName), k)
  /\ o.NotificationId # t.NotificationId => ~ZMember(d, NotifKey(o.NotificationId), k)

\* C4: every step of an update's EXEC with no batch committed since the update
\* read the record leaves the store as it was or in the complete post-update
\* state; no state in between is ever visible.
C4_UpdateAtomic ==
  [][\A p \in Procs :
       (pc[p] = "upd_exec" /\ readAt[p] = commits /\ wire'[p] # wire[p])
         => (db' = db \/ PostUpdate(db', p))]_vars

\* an update with no other writer has committed and moved the key between
\* status indexes
C4_Witness ==
  /\ last.op = "update" /\ last.ret = "ok" /\ last.solo /\ "Status" \in last.moved
  /\ SecondaryMatches(db, last.id)

\* C5: a step after which the call returned last has returned an error leaves
\* the store as it was; no command of that call has been applied and none
\* stays queued.
C5_ErrorLeavesStore ==
  [][last'.ret \in ErrorKinds
       => /\ db' = db
          /\ ~last'.wrote
          /\ \A p \in Procs : pc'[p] = "idle" => wire'[p] = <<>>]_vars

\* the EXEC of an update has failed and the record it read is still stored
C5_Witness ==
  /\ last.op = "update" /\ last.ret = "DatabaseError" /\ last.ts > 0
  /\ Exists(db, transmissionStoredKey(last.id))
  /\ SecondaryMatches(db, last.id)

\* C6: the commit of a delete with no batch committed since the delete read
\* the record makes lookup by id fail with NotFound, lowers the cardinality of
\* the primary index by one and leaves the key in no index at all.
C6_DeleteComplete ==
  [][\A p \in Procs :
       (pc[p] = "del_exec" /\ readAt[p] = commits /\ pc'[p] = "idle" /\ last'.ret = "ok")
         => LET id == trans[p].Id
                k == transmissionStoredKey(id) IN
            /\ transmissionById(db', id, "none").err = "NotFound"
            /\ ZCard(db', TransmissionCollection) = ZCard(db, TransmissionCollection) - 1
            /\ \A z \in ZKeys : ~ZMember(db', z, k)]_vars

\* C7: an add whose existence check finds a blob at the stored key returns
\* DuplicateName, goes on to no EXEC and leaves the store as it was.  (A step
\* that leaves every pc as it was is a call returning before EXEC, recorded in
\* last'; a failed check itself returns DatabaseError.)
C7_DuplicateRejected ==
  [][/\ \A p \in Procs :
          (pc[p] = "idle" /\ pc'[p] = "add_exec")
            => ~Exists(db, transmissionStoredKey(trans'[p].Id))
     /\ (/\ pc' = pc /\ last'.op = "add" /\ last'.ret # "DatabaseError"
         /\ Exists(db, transmissionStoredKey(last'.id)))
          => /\ last'.ret = "DuplicateName"
             /\ db' = db
             /\ \A p \in Procs : pc'[p] = "idle" => wire'[p] = <<>>]_vars

\* an add has been refused and the blob it met is stored with its index entries
C7_Witness ==
  /\ last.op = "add" /\ last.ret = "DuplicateName"
  /\ Exists(db, transmissionStoredKey(last.id))
  /\ ZMember(db, TransmissionCollection, transmissionStoredKey(last.id))

\* C8: the EXEC of an add that has passed the existence check never returns a
\* duplicate error: unless the commit itself fails it succeeds and writes the
\* blob, whether or not another add has created the id since the check.
C8_AddCommitsUnchecked ==
  [][\A p \in Procs :
       (pc[p] = "add_exec" /\ wire'[p] # wire[p] /\ last'.ret # "DatabaseError")
         => /\ last'.op = "add" /\ last'.ret = "ok"
            /\ db'.str[transmissionStoredKey(trans[p].Id)] = Marshal(trans[p])]_vars

\* two adds of one id have both passed the check before either committed, and
\* both have committed with success
C8_Witness ==
  /\ last.op = "add" /\ last.ret = "ok" /\ last.over = "add"
  /\ Exists(db, transmissionStoredKey(last.id))

\* C9: after an add or update has returned success, the stored Modified is the
\* timestamp the call took, and after an add the stored Created is the
\* caller's Created when that is not zero and the same timestamp when it is.
C9_StoreStamps ==
  (last.ret = "ok" /\ last.op \in {"add", "update"})
    => LET t == StoredTrans(db, last.id) IN
       /\ Exists(db, transmissionStoredKey(last.id))
       /\ t.Modified = last.ts
       /\ last.op = "add"
            => t.Created = IF last.given # 0 THEN last.given ELSE last.ts

\* an add with Created zero has committed at a time the caller's values do not reach
C9_Witness ==
  /\ last.ret = "ok" /\ last.op = "add" /\ last.given = 0 /\ last.ts > MaxCallerTime
  /\ StoredTrans(db, last.id).Created = last.ts
  /\ StoredTrans(db, last.id).Modified = last.ts

\* C10: an update whose read finds no blob for the id returns NotFound, goes on
\* to no EXEC and leaves the store as it was, without blob or index entry.  (A
\* failed read itself returns DatabaseError.)
C10_UpdateNotFound ==
  [][/\ \A p \in Procs :
          (pc[p] = "idle" /\ pc'[p] = "upd_exec")
            => Exists(db, transmissionStoredKey(trans'[p].Id))
     /\ (/\ pc' = pc /\ last'.op = "update" /\ last'.ret # "DatabaseError"
         /\ ~Exists(db, transmissionStoredKey(last'.id)))
          => /\ last'.ret = "NotFound"
             /\ db' = db
             /\ \A p \in Procs : pc'[p] = "idle" => wire'[p] = <<>>]_vars

\* an update has returned NotFound and the id has neither blob nor index entry
C10_Witness ==
  /\ last.op = "update" /\ last.ret = "NotFound"
  /\ ~Exists(db, transmissionStoredKey(last.id))
  /\ \A z \in ZKeys : ~ZMember(db, z, transmissionStoredKey(last.id))

\* the live ids, and those whose stored Created lies in [start, end]
Live(d) == {id \in Ids : Exists(d, transmissionStoredKey(id))}

CreatedWithin(d, start, end) ==
  {id \in Live(d) : start <= StoredTrans(d, id).Created /\ StoredTrans(d, id).Created <= end}

\* the number of ids of S that the created-time index lists before id
CreatedPlace(d, S, id) ==
  Cardinality({j \in S :
    ZBefore(d, TransmissionCollectionCreated,
            transmissionStoredKey(j), transmissionStoredKey(id))})

\* C11: a time-range query that returns without error returns the decoded
\* blobs of exactly the live transmissions with start <= Created <= end, those
\* with Created = start - 1 or end + 1 left out, in the order of the
\* created-time index, less the first offset of them and cut to limit.
C11_TimeRange ==
  (res.op = "transmissionsByTimeRange" /\ res.err = "")
    => LET sel == CreatedWithin(db, res.start, res.end)
           n == Cardinality(sel)
           rest == IF n > res.offset THEN n - res.offset ELSE 0 IN
       /\ Len(res.out) = IF rest < res.limit THEN rest ELSE res.limit
       /\ \A i \in 1..Len(res.out) :
            \E id \in sel :
              /\ CreatedPlace(db, sel, id) = res.offset + i - 1
              /\ res.out[i] = StoredTrans(db, id)
       /\ \A id \in Live(db) :
            StoredTrans(db, id).Created \in {res.start - 1, res.end + 1}
              => \A i \in 1..Len(res.out) : res.out[i].Id # id

\* a query has returned the one transmission created at start = end and left
\* out the one created at end + 1
C11_Witness ==
  /\ res.op = "transmissionsByTimeRange" /\ res.err = ""
  /\ res.start = res.end /\ res.offset = 0 /\ res.limit > 0
  /\ Len(res.out) = 1 /\ res.out[1].Created = res.start
  /\ \E id \in Live(db) : StoredTrans(db, id).Created = res.end + 1

\* C12: allTransmissions(0, N) over the N live transmissions returns each of
\* them once, newest Modified first, and for every k in 0..N it is the
\* concatenation of allTransmissions(0, k) and allTransmissions(k, N - k).
C12_Pagination ==
  LET n == Cardinality(Live(db)) IN
  (res.op = "allTransmissions" /\ res.err = "" /\ res.offset = 0 /\ res.limit = n)
    => /\ Len(res.out) = n
       /\ \A id \in Live(db) :
            \E i \in 1..n : res.out[i] = StoredTrans(db, id)
       /\ \A i \in 1..n, j \in 1..n :
            i < j => /\ res.out[i].Modified >= res.out[j].Modified
                     /\ res.out[i].Id # res.out[j].Id
       /\ \A k \in 0..n :
            allTransmissions(db, 0, k, "none").transmissions
              \o allTransmissions(db, k, n - k, "none").transmissions = res.out

\* every live transmission has been returned, the one modified last first
\* although its key and its Created come last in the other orders
C12_Witness ==
  /\ res.op = "allTransmissions" /\ res.err = ""
  /\ res.offset = 0 /\ res.limit = NumIds /\ Len(res.out) = NumIds
  /\ res.out[1].Id = IdPool[NumIds]
  /\ res.out[1].Modified > res.out[2].Modified
  /\ res.out[1].Created < res.out[2].Created

\* C13: an operation in progress has taken one connection from the pool and
\* closed none, an operation that has returned has closed the one it took and
\* no other, and the connections out of the pool are those of the operations
\* in progress: none when every operation has returned.
C13_ConnectionScoped ==
  /\ \A p \in Procs :
       IF call[p].op = "none"
         THEN call[p].got = call[p].put /\ call[p].put <= 1
         ELSE call[p].got = 1 /\ call[p].put = 0
  /\ active = Cardinality({p \in Procs : call[p].op # "none"})

\* every caller has run an operation to its end, the last one returned on a
\* malformed id before its helper, an earlier one wrote to the store
C13_Witness ==
  /\ cres.ret = "InvalidId" /\ active = 0
  /\ \A p \in Procs : call[p].op = "none" /\ call[p].got = 1 /\ call[p].put = 1
  /\ \E k \in Kinds : ents[k] # {}

\* C14: no malformed id is ever stored, and an Add passed a non-empty
\* malformed id returns InvalidId without a store round trip.
C14_MalformedRejected ==
  /\ \A k \in Kinds : \A id \in ents[k] : uuidParse(id) = ""
  /\ (cres.op \in AddOps /\ cres.given # "" /\ uuidParse(cres.given) # "")
       => cres.ret = "InvalidId" /\ cres.cmds = 0

\* C15: the id an Add assigns to an entity passed without one is well formed
\* and is neither stored nor assigned before, to a call that has returned or
\* to one in progress; an Add that returns success has stored the entity under
\* the id it was passed, or under the assigned one when it was passed none.
C15_IdAssignment ==
  [][\A p \in Procs :
       LET c == call[p]
           stored == UNION {ents[k] : k \in Kinds}
           others == {call[q].id : q \in {r \in Procs \ {p} : call[r].given = ""}} IN
       /\ (c.op = "none" /\ call'[p].op \in AddOps /\ call'[p].given = ""
             /\ call'[p].id # "")
            => /\ uuidParse(call'[p].id) = ""
               /\ call'[p].id \notin stored \cup assigned \cup others
       /\ (c.op \in AddOps /\ call'[p].op = "none" /\ cres'.ret = "ok")
            => /\ cres'.id # ""
               /\ cres'.id \notin ents[KindOf(c.op)]
               /\ ents' = [ents EXCEPT ![KindOf(c.op)] = @ \cup {cres'.id}]
               /\ c.given # "" => cres'.id = c.given
               /\ (c.given = "" /\ c.id # "") => cres'.id = c.id
               /\ (c.given = "" /\ c.id = "")
                    => /\ uuidParse(cres'.id) = ""
                       /\ cres'.id \notin stored \cup assigned \cup others]_vars

\* an AddDevice passed no id has stored its device under the id assigned to
\* it while another Add holds a different assigned id, and an entity is
\* stored under the id its caller passed
C15_Witness ==
  /\ cres.op = "AddDevice" /\ cres.ret = "ok" /\ cres.given = ""
  /\ cres.id \in ents["device"]
  /\ \E q \in Procs :
       /\ call[q].op \in AddOps /\ call[q].given = ""
       /\ call[q].id \notin {"", cres.id}

\* C16: for each id, a step that leaves a blob stored before and after it
\* never lowers the stored Modified nor the key's score in the primary index,
\* whatever the interleaving of the add and update calls; the clock now never
\* goes backwards.
C16_ModifiedMonotone ==
  [][\A id \in Ids :
       LET k == transmissionStoredKey(id) IN
       (Exists(db, k) /\ Exists(db', k))
         => /\ StoredTrans(db', id).Modified >= StoredTrans(db, id).Modified
            /\ db'.zset[TransmissionCollection][k] >= db.zset[TransmissionCollection][k]]_vars

\* C17: in every reachable state the key of each live transmission has its
\* blob's Modified as score in the primary index and its blob's Created as
\* score in the created-time index.
C17_ScoresMatchBlob ==
  \A id \in Ids :
    LET k == transmissionStoredKey(id) IN
    Exists(db, k)
      => /\ db.zset[TransmissionCollection][k] = StoredTrans(db, id).Modified
         /\ db.zset[TransmissionCollectionCreated][k] = StoredTrans(db, id).Created

\* an update has committed over another update of its id that committed after
\* its read, and has left a Created that differs from the Modified
C17_Witness ==
  /\ last.op = "update" /\ last.ret = "ok" /\ last.over = "update"
  /\ Exists(db, transmissionStoredKey(last.id))
  /\ StoredTrans(db, last.id).Created # StoredTrans(db, last.id).Modified
  /\ db.zset[TransmissionCollectionCreated][transmissionStoredKey(last.id)]
       = StoredTrans(db, last.id).Created

\* C18: the EXEC of an update that finds no blob at its key (the record it read
\* has been deleted since) is not refused: unless the commit itself fails it
\* returns success and leaves the blob and all five index entries of the id.
C18_UpdateRecreates ==
  [][\A p \in Procs :
       (/\ pc[p] = "upd_exec" /\ wire'[p] # wire[p]
        /\ ~Exists(db, transmissionStoredKey(trans[p].Id))
        /\ last'.ret # "DatabaseError")
         => LET k == transmissionStoredKey(trans[p].Id)
                t == trans[p] IN
            /\ last'.op = "update" /\ last'.ret = "ok"
            /\ db'.str[k] = Marshal(t)
            /\ db'.zset[TransmissionCollection][k] = t.Modified
            /\ db'.zset[TransmissionCollectionCreated][k] = t.Created
            /\ db'.zset[StatusKey(t.Status)][k] = t.Modified
            /\ db'.zset[SubKey(t.SubscriptionName)][k] = t.Modified
            /\ db'.zset[NotifKey(t.NotificationId)][k] = t.Modified]_vars

\* an update has committed after a delete of its id that committed after the
\* update's read, and the id has its blob and five index entries again
C18_Witness ==
  LET k == transmissionStoredKey(last.id) IN
  /\ last.op = "update" /\ last.ret = "ok" /\ last.over = "delete"
  /\ Exists(db, k)
  /\ ZMember(db, TransmissionCollection, k)
  /\ ZMember(db, TransmissionCollectionCreated, k)
  /\ ZMember(db, StatusKey(StoredTrans(db, last.id).Status), k)
  /\ ZMember(db, SubKey(StoredTrans(db, last.id).SubscriptionName), k)
  /\ ZMember(db, NotifKey(StoredTrans(db, last.id).NotificationId), k)

\* C19: after an update has returned success, the stored Created and the key's
\* score in the created-time index are the Created the caller passed, zero
\* included.
C19_CreatedVerbatim ==
  (last.op = "update" /\ last.ret = "ok")
    => /\ StoredTrans(db, last.id).Created = last.given
       /\ db.zset[TransmissionCollectionCreated][transmissionStoredKey(last.id)]
            = last.given

\* an update that passed Created zero has committed, and zero is stored where
\* the add had stored a timestamp
C19_Witness ==
  /\ last.op = "update" /\ last.ret = "ok" /\ last.given = 0
  /\ StoredTrans(db, last.id).Created = 0
  /\ db.zset[TransmissionCollectionCreated][transmissionStoredKey(last.id)] = 0

\* what the store holds for one id: its blob and its score in every index
ViewOf(d, id) ==
  [blob |-> d.str[transmissionStoredKey(id)],
   score |-> [z \in ZKeys |-> d.zset[z][transmissionStoredKey(id)]]]

\* C20: a step changes the blob, the index membership or an index score of an
\* id only when it applies commands of a call for that very id; every other
\* id is left as it was in every index.
C20_Frame ==
  [][\A id \in Ids :
       ViewOf(db', id) # ViewOf(db, id)
         => \E p \in Procs :
              pc[p] # "idle" /\ wire'[p] # wire[p] /\ trans[p].Id = id]_vars

\* an update has committed while another id is live in the same status index
C20_Witness ==
  /\ last.op = "update" /\ last.ret = "ok"
  /\ Exists(db, transmissionStoredKey(last.id))
  /\ \E id \in Ids \ {last.id} :
       /\ Exists(db, transmissionStoredKey(id))
       /\ StoredTrans(db, id).Status = StoredTrans(db, last.id).Status
       /\ ZMember(db, StatusKey(StoredTrans(db, id).Status), transmissionStoredKey(id))
       /\ ZMember(db, StatusKey(StoredTrans(db, id).Status), transmissionStoredKey(last.id))

TypeOK ==
  /\ db.str \in [StoredKeys -> {NoBlob} \cup {Marshal(t) : t \in
        [Id : Ids, Status : StatusValues, SubscriptionName : SubNames,
         NotificationId : NotifIds, Created : 0..MaxTime, Modified : 0..MaxTime]}]
  /\ now \in 1..MaxTime
  /\ commits \in 0..MaxCommits

====
